---------------------------- MODULE Spec2Model ----------------------------
(***************************************************************************)
(* Import & field-mapping pipeline of av_designer (src-tauri/src/import).  *)
(*                                                                         *)
(* Strings are TLA+ strings; a character is a string of length 1.  Option  *)
(* values are the payload itself or the string "None".  The f32 confidence *)
(* of a HeaderSuggestion is written in hundredths (0.95 is 95).            *)
(***************************************************************************)
EXTENDS Integers, Sequences, FiniteSets, TLC

VARIABLES
    headers,      \* detect_headers: parsed.headers of the ParsedFile passed in
    suggestions,  \* detect_headers: the Result it returned
    rows,         \* validate_import_rows: the rows passed in
    mappings,     \* validate_import_rows: the mappings passed in
    results,      \* validate_import_rows: the Result it returned
    path,         \* parse_import_file: the path passed in
    disk,         \* parse_import_file: what the file system holds at that path
    parsed        \* parse_import_file: the Result it returned

vars == <<headers, suggestions, rows, mappings, results, path, disk, parsed>>

(***************************************************************************)
(* std::str helpers, over the ASCII range.                                 *)
(***************************************************************************)
CharAt(s, i) == SubSeq(s, i, i)

UpperAlphabet == "ABCDEFGHIJKLMNOPQRSTUVWXYZ"
LowerAlphabet == "abcdefghijklmnopqrstuvwxyz"

\* char::to_lowercase
LowerChar(c) ==
    IF \E i \in 1..Len(UpperAlphabet) : CharAt(UpperAlphabet, i) = c
    THEN CharAt(LowerAlphabet, CHOOSE i \in 1..Len(UpperAlphabet) : CharAt(UpperAlphabet, i) = c)
    ELSE c

\* str::to_lowercase
RECURSIVE to_lowercase(_)
to_lowercase(s) ==
    IF s = "" THEN "" ELSE LowerChar(CharAt(s, 1)) \o to_lowercase(Tail(s))

\* char::is_whitespace
WhiteSpace == {" ", "\t", "\n", "\r"}

\* str::trim_start
RECURSIVE trim_start(_)
trim_start(s) ==
    IF s # "" /\ CharAt(s, 1) \in WhiteSpace THEN trim_start(Tail(s)) ELSE s

\* str::trim_end
RECURSIVE trim_end(_)
trim_end(s) ==
    IF s # "" /\ CharAt(s, Len(s)) \in WhiteSpace
    THEN trim_end(SubSeq(s, 1, Len(s) - 1))
    ELSE s

\* str::trim
trim(s) == trim_end(trim_start(s))

\* str::contains(&str)
contains(s, pat) ==
    \E i \in 1..(Len(s) - Len(pat) + 1) : SubSeq(s, i, i + Len(pat) - 1) = pat

\* str::replace([chars], "")
RECURSIVE replace(_, _)
replace(s, chars) ==
    IF s = "" THEN ""
    ELSE (IF CharAt(s, 1) \in chars THEN "" ELSE CharAt(s, 1)) \o replace(Tail(s), chars)

(***************************************************************************)
(* parser.rs: EquipmentField and the HeaderMapper.                         *)
(***************************************************************************)
None == "None"

EquipmentField ==
    {"Manufacturer", "Model", "Sku", "Category", "Subcategory", "Description",
     "Cost", "Msrp", "Height", "Width", "Depth", "Weight", "Voltage", "Wattage",
     "Certifications", "ImageUrl"}

high_confidence_mappings ==
    << [patterns |-> <<"manufacturer", "mfg", "brand", "vendor">>, field |-> "Manufacturer"],
       [patterns |-> <<"model", "model number", "model #", "model no">>, field |-> "Model"],
       [patterns |-> <<"sku", "part number", "part #", "part no", "item number", "item #", "pn">>,
        field |-> "Sku"],
       [patterns |-> <<"category", "cat">>, field |-> "Category"],
       [patterns |-> <<"subcategory", "sub-category", "subcat">>, field |-> "Subcategory"],
       [patterns |-> <<"description", "desc", "product description", "item description">>,
        field |-> "Description"],
       [patterns |-> <<"cost", "unit cost", "dealer cost", "net cost", "buy price">>,
        field |-> "Cost"],
       [patterns |-> <<"msrp", "list price", "retail", "list", "srp">>, field |-> "Msrp"],
       [patterns |-> <<"height", "h", "height (in)", "height (inches)">>, field |-> "Height"],
       [patterns |-> <<"width", "w", "width (in)", "width (inches)">>, field |-> "Width"],
       [patterns |-> <<"depth", "d", "depth (in)", "depth (inches)", "length">>, field |-> "Depth"],
       [patterns |-> <<"weight", "wt", "weight (lbs)", "weight (lb)">>, field |-> "Weight"],
       [patterns |-> <<"voltage", "volt", "v">>, field |-> "Voltage"],
       [patterns |-> <<"wattage", "watts", "power", "w">>, field |-> "Wattage"],
       [patterns |-> <<"certifications", "certs", "platform", "platforms">>,
        field |-> "Certifications"],
       [patterns |-> <<"image", "image url", "imageurl", "picture", "photo">>,
        field |-> "ImageUrl"] >>

\* The table entries whose pattern list holds `lower`; the loop returns at the first.
ExactHits(lower) ==
    {i \in 1..Len(high_confidence_mappings) :
        \E j \in 1..Len(high_confidence_mappings[i].patterns) :
            lower = high_confidence_mappings[i].patterns[j]}

MinOf(S) == CHOOSE m \in S : \A n \in S : m <= n

\* partial_match with the cost/price test moved ahead of the sku test.
partial_match_cost_first(lower) ==
    IF contains(lower, "manufacturer") \/ contains(lower, "mfg") \/ contains(lower, "brand")
    THEN [field |-> "Manufacturer", confidence |-> 70]
    ELSE IF contains(lower, "model")
    THEN [field |-> "Model", confidence |-> 70]
    ELSE IF contains(lower, "cost") \/ contains(lower, "price")
    THEN (IF contains(lower, "list") \/ contains(lower, "msrp") \/ contains(lower, "retail")
          THEN [field |-> "Msrp", confidence |-> 60]
          ELSE [field |-> "Cost", confidence |-> 60])
    ELSE IF contains(lower, "sku") \/ contains(lower, "part") \/ contains(lower, "item")
    THEN [field |-> "Sku", confidence |-> 70]
    ELSE IF contains(lower, "desc")
    THEN [field |-> "Description", confidence |-> 70]
    ELSE [field |-> None, confidence |-> 0]

\* The partial matches of suggest_field_for_header, on the normalized header.
partial_match(lower) ==
    IF contains(lower, "manufacturer") \/ contains(lower, "mfg") \/ contains(lower, "brand")
    THEN [field |-> "Manufacturer", confidence |-> 70]
    ELSE IF contains(lower, "model")
    THEN [field |-> "Model", confidence |-> 70]
    ELSE IF contains(lower, "sku") \/ contains(lower, "part") \/ contains(lower, "item")
    THEN [field |-> "Sku", confidence |-> 70]
    ELSE IF contains(lower, "cost") \/ contains(lower, "price")
    THEN (IF contains(lower, "list") \/ contains(lower, "msrp") \/ contains(lower, "retail")
          THEN [field |-> "Msrp", confidence |-> 60]
          ELSE [field |-> "Cost", confidence |-> 60])
    ELSE IF contains(lower, "desc")
    THEN [field |-> "Description", confidence |-> 70]
    ELSE [field |-> None, confidence |-> 0]

MaxOf(S) == CHOOSE m \in S : \A n \in S : m >= n

\* suggest_field_for_header with the trim forgotten.
suggest_field_for_header_untrimmed(header) ==
    LET lower == to_lowercase(header)
        hits  == ExactHits(lower)
    IN  IF hits # {}
        THEN [field |-> high_confidence_mappings[MinOf(hits)].field, confidence |-> 95]
        ELSE partial_match(lower)

\* suggest_field_for_header with a loop that keeps the last table entry that matches.
suggest_field_for_header_last_hit(header) ==
    LET lower == trim(to_lowercase(header))
        hits  == ExactHits(lower)
    IN  IF hits # {}
        THEN [field |-> high_confidence_mappings[MaxOf(hits)].field, confidence |-> 95]
        ELSE partial_match(lower)

\* suggest_field_for_header comparing the header as typed, not lowercased.
suggest_field_for_header_case_sensitive(header) ==
    LET lower == trim(header)
        hits  == ExactHits(lower)
    IN  IF hits # {}
        THEN [field |-> high_confidence_mappings[MinOf(hits)].field, confidence |-> 95]
        ELSE partial_match(lower)

suggest_field_for_header(header) ==
    LET lower == trim(to_lowercase(header))
        hits  == ExactHits(lower)
    IN  IF hits # {}
        THEN [field |-> high_confidence_mappings[MinOf(hits)].field, confidence |-> 95]
        ELSE partial_match(lower)

HeaderSuggestion(idx, header) ==
    LET s == suggest_field_for_header(header)
    IN  [column_index    |-> idx,
         header          |-> header,
         suggested_field |-> s.field,
         confidence      |-> s.confidence]

\* detect_header_mappings suggesting a field for one column only: a later
\* header whose field an earlier column already received gets none.
detect_header_mappings_dedup(hs) ==
    [tag |-> "Ok",
     value |-> [i \in 1..Len(hs) |->
        LET g == HeaderSuggestion(i - 1, hs[i])
        IN  IF \E j \in 1..(i - 1) :
                  suggest_field_for_header(hs[j]).field = g.suggested_field
            THEN [g EXCEPT !.suggested_field = None, !.confidence = 0]
            ELSE g]]

\* column_index is 0-based (enumerate), sequences here are 1-based.
detect_header_mappings(hs) ==
    [tag |-> "Ok", value |-> [i \in 1..Len(hs) |-> HeaderSuggestion(i - 1, hs[i])]]

Pending == [tag |-> "Pending", value |-> <<>>]

\* The file system is no input of detect_headers and validate_import_rows.
NoDisk == [opens |-> <<>>, lines |-> <<>>, read_fault |-> <<>>, workbook |-> <<>>]


(***************************************************************************)
(* Inputs of detect_headers.                                               *)
(***************************************************************************)
MaxHeaders == 2

\* Every alias of the exact-match table.
AliasHeaders ==
    UNION {{high_confidence_mappings[i].patterns[j] :
               j \in 1..Len(high_confidence_mappings[i].patterns)} :
           i \in 1..Len(high_confidence_mappings)}

\* The tokens of the partial matches, and a word none of them occurs in.
PartialTokens ==
    {"manufacturer", "mfg", "brand", "model", "sku", "part", "item",
     "cost", "price", "list", "msrp", "retail", "desc"}

HeaderWords == PartialTokens \cup {"usd"}

\* Two words separated by a space, and a token inside a longer word.
CompoundHeaders ==
    {a \o " " \o b : a \in HeaderWords, b \in HeaderWords}
        \cup {"x" \o t \o "y" : t \in PartialTokens}

\* Headers as people type them: upper and mixed case, padded, unrecognized, empty.
TypedHeaders ==
    {"Manufacturer", "MFG", " Mfg ", "Part Number", "Dealer Cost USD", "Random Column",
     "Item Description", "W", " w", "\tSKU\n", "SKU", "Cost", "List Price", "Retail Price",
     "Unit Price", "Department", "Notes", "", " ", "PN", "Qty", "Model No.", "Watts"}

HeaderPool == AliasHeaders \cup CompoundHeaders \cup TypedHeaders

\* Headers that files with several columns are drawn from.
ColumnHeaders == {"Manufacturer", "MFG", "Part Number", "Dealer Cost USD", "Notes", "W"}

SeqsUpTo(S, n) == UNION {[1..k -> S] : k \in 0..n}

HeaderInputs ==
    {<<h>> : h \in HeaderPool} \cup SeqsUpTo(ColumnHeaders, MaxHeaders)

(***************************************************************************)
(* mod.rs: the detect_headers command.                                     *)
(***************************************************************************)
InitDetect ==
    /\ headers \in HeaderInputs
    /\ suggestions = Pending
    /\ rows = <<>>
    /\ mappings = <<>>
    /\ results = Pending
    /\ path = ""
    /\ disk = NoDisk
    /\ parsed = Pending

detect_headers_of_last_parse ==
    /\ suggestions = Pending
    /\ suggestions' = detect_header_mappings(IF parsed.tag = "Ok" THEN parsed.value.headers
                                              ELSE headers)
    /\ UNCHANGED <<headers, rows, mappings, results, path, disk, parsed>>

detect_headers ==
    /\ suggestions = Pending
    /\ suggestions' = detect_header_mappings(headers)
    /\ UNCHANGED <<headers, rows, mappings, results, path, disk, parsed>>

NextDetect == detect_headers

SpecDetect == InitDetect /\ [][NextDetect]_vars


(***************************************************************************)
(* parser.rs: the Validator.                                               *)
(***************************************************************************)
Digits == {"0", "1", "2", "3", "4", "5", "6", "7", "8", "9"}

AllIn(s, chars) == \A i \in 1..Len(s) : CharAt(s, i) \in chars

\* Digit+ | Digit+ '.' Digit* | Digit* '.' Digit+
IsMantissa(m) ==
    /\ AllIn(m, Digits \cup {"."})
    /\ Cardinality({i \in 1..Len(m) : CharAt(m, i) = "."}) <= 1
    /\ \E i \in 1..Len(m) : CharAt(m, i) \in Digits

\* Sign? Digit+, what follows the 'e' of a number
IsExponent(x) ==
    LET d == IF x # "" /\ CharAt(x, 1) \in {"+", "-"} THEN Tail(x) ELSE x
    IN  d # "" /\ AllIn(d, Digits)

IsNumber(b) ==
    LET es == {i \in 1..Len(b) : CharAt(b, i) \in {"e", "E"}}
    IN  IF es = {}
        THEN IsMantissa(b)
        ELSE /\ IsMantissa(SubSeq(b, 1, MinOf(es) - 1))
             /\ IsExponent(SubSeq(b, MinOf(es) + 1, Len(b)))

\* str::parse::<f64>().is_ok(): Sign? ( 'inf' | 'infinity' | 'nan' | Number ),
\* the three words in any letter case.
parse_f64_is_ok(s) ==
    LET b == IF s # "" /\ CharAt(s, 1) \in {"+", "-"} THEN Tail(s) ELSE s
    IN  \/ to_lowercase(b) \in {"inf", "infinity", "nan"}
        \/ IsNumber(b)

required == <<"Manufacturer", "Model", "Sku", "Cost">>

\* Vec::get with a 0-based index: is there a cell, and which.
HasCell(cells, col) == col < Len(cells)
CellAt(cells, col) == cells[col + 1]

\* has_value with the trim forgotten: a cell of spaces counts as a value.
has_value_untrimmed(row, ms, field) ==
    \E i \in 1..Len(ms) :
        /\ ms[i].target_field = field
        /\ HasCell(row.cells, ms[i].source_column)
        /\ CellAt(row.cells, ms[i].source_column) # ""

\* mappings.iter().any(..) of the required-field loop
has_value(row, ms, field) ==
    \E i \in 1..Len(ms) :
        /\ ms[i].target_field = field
        /\ HasCell(row.cells, ms[i].source_column)
        /\ trim(CellAt(row.cells, ms[i].source_column)) # ""

missing_fields_of(row, ms) ==
    SelectSeq(required, LAMBDA field : ~has_value(row, ms, field))

\* mappings.iter().find(|m| m.target_field == Some(field)): its position, 0 if none
find_mapping(ms, field) ==
    LET hits == {i \in 1..Len(ms) : ms[i].target_field = field}
    IN  IF hits = {} THEN 0 ELSE MinOf(hits)

\* The numeric check of one field: the errors it pushes.
numeric_errors(row, ms, field, label) ==
    LET k == find_mapping(ms, field)
    IN  IF k = 0 \/ ~HasCell(row.cells, ms[k].source_column)
        THEN <<>>
        ELSE LET raw     == CellAt(row.cells, ms[k].source_column)
                 cleaned == replace(raw, {"$", ",", " "})
             IN  IF cleaned # "" /\ ~parse_f64_is_ok(cleaned)
                 THEN << "Invalid " \o label \o " format: '" \o raw \o "'" >>
                 ELSE <<>>

\* status_of with the two tests in the other order.
status_of_missing_first(errors, missing) ==
    IF missing # <<>> THEN "Incomplete"
    ELSE IF errors # <<>> THEN "Invalid"
    ELSE "Valid"

status_of(errors, missing) ==
    IF errors # <<>> THEN "Invalid"
    ELSE IF missing # <<>> THEN "Incomplete"
    ELSE "Valid"

\* validate_single_row leaving match_type unset on a row that cannot be imported.
validate_single_row_unmatched(row, ms) ==
    LET missing == missing_fields_of(row, ms)
        errors  == numeric_errors(row, ms, "Cost", "cost")
                       \o numeric_errors(row, ms, "Msrp", "MSRP")
    IN  [row_number            |-> row.row_number,
         status                |-> status_of(errors, missing),
         match_type            |-> IF errors # <<>> THEN None ELSE "New",
         existing_equipment_id |-> None,
         missing_fields        |-> missing,
         errors                |-> errors]

validate_single_row(row, ms) ==
    LET missing == missing_fields_of(row, ms)
        errors  == numeric_errors(row, ms, "Cost", "cost")
                       \o numeric_errors(row, ms, "Msrp", "MSRP")
    IN  [row_number            |-> row.row_number,
         status                |-> status_of(errors, missing),
         match_type            |-> "New",
         existing_equipment_id |-> None,
         missing_fields        |-> missing,
         errors                |-> errors]

\* validate_rows collecting into a Result: the first Invalid row fails the batch.
validate_rows_fail_fast(rs, ms) ==
    IF \E i \in 1..Len(rs) : validate_single_row(rs[i], ms).status = "Invalid"
    THEN [tag |-> "Err", value |-> <<>>]
    ELSE [tag |-> "Ok", value |-> [i \in 1..Len(rs) |-> validate_single_row(rs[i], ms)]]

validate_rows(rs, ms) ==
    [tag |-> "Ok", value |-> [i \in 1..Len(rs) |-> validate_single_row(rs[i], ms)]]


(***************************************************************************)
(* Inputs of validate_import_rows.                                         *)
(***************************************************************************)
MaxRows == 2

Mapping(col, header, target) ==
    [source_column |-> col, source_header |-> header, target_field |-> target]

Row(n, cells) == [row_number |-> n, cells |-> cells]

\* The mapping of the unit tests, with an MSRP column after the cost.
CanonicalMappings ==
    << Mapping(0, "Manufacturer", "Manufacturer"),
       Mapping(1, "Model", "Model"),
       Mapping(2, "SKU", "Sku"),
       Mapping(3, "Cost", "Cost"),
       Mapping(4, "MSRP", "Msrp") >>

NumColumns == Len(CanonicalMappings)

RECURSIVE Pick(_, _)
\* The subsequence of CanonicalMappings at the positions of `keep`.
Pick(keep, i) ==
    IF i > NumColumns THEN <<>>
    ELSE (IF i \in keep THEN <<CanonicalMappings[i]>> ELSE <<>>) \o Pick(keep, i + 1)

BaseMappings == {Pick(keep, 1) : keep \in SUBSET (1..NumColumns)}

\* One more mapping, as a caller may add it: a duplicate target, a column past
\* every row (NumColumns), a field that is not required, or no target at all.
ExtraMappings ==
    {Mapping(col, "Extra", target) :
        col \in 0..NumColumns,
        target \in {"Manufacturer", "Model", "Sku", "Cost", "Msrp", "Category", None}}

MappingInputs ==
    BaseMappings
        \cup {<<x>> \o b : x \in ExtraMappings, b \in BaseMappings}
        \cup {b \o <<x>> : x \in ExtraMappings, b \in BaseMappings}

\* blank, whitespace only, text, a number
CellPool == {"", " ", "TBD", "25"}

RowPool == {Row(2, cells) : cells \in SeqsUpTo(CellPool, NumColumns)}

\* What a cost or MSRP cell may hold.
NumericCells ==
    {"2500.00", "$2,500.00", "$ 1,000", "25", "-5", "+5", "1e3", "1E-3", "1.", ".5", "0",
     "TBD", "N/A", "call", "12abc", "1.2.3", ".", "$", ",", "-", "+", "e5", "1e", "1e+",
     "--1", "2500 USD", "1_000", "nan", "NaN", "inf", "-inf", "Infinity", "\t25", "25\n",
     "0x10", " 7 "}

NumericRows ==
    {Row(2, <<"Poly", "Studio X50", "ABC123", c, m>>) :
        c \in NumericCells, m \in {"", "3000", "TBD"}}
        \cup {Row(2, <<"Poly", "Studio X50", "ABC123", "2500.00", m>>) : m \in NumericCells}

\* Rows of a price sheet, with the row numbers of a file that has gaps.
SampleRows ==
    { Row(2, <<"Poly", "Studio X50", "2200-86260-001", "2500.00">>),
      Row(3, <<"Poly", "Studio X50", "", "2500.00">>),
      Row(5, <<"Poly", "Studio X50", "ABC123", "TBD">>),
      Row(6, <<"Poly", "Studio X50", "ABC123", "$2,500.00", "$3,000.00">>),
      Row(8, <<"Poly", "", " ", "TBD", "call">>),
      Row(9, <<"Poly">>),
      Row(11, <<" ", "X50", "", "", "99">>),
      Row(12, <<>>) }

InitValidate ==
    /\ \/ rows \in {<<r>> : r \in RowPool} /\ mappings \in BaseMappings
       \/ rows \in {<<r>> : r \in NumericRows} /\ mappings = CanonicalMappings
       \/ rows \in {<<r>> : r \in SampleRows} /\ mappings \in MappingInputs
       \/ rows \in SeqsUpTo(SampleRows, MaxRows) /\ mappings \in BaseMappings
    /\ results = Pending
    /\ headers = <<>>
    /\ suggestions = Pending
    /\ path = ""
    /\ disk = NoDisk
    /\ parsed = Pending

(***************************************************************************)
(* mod.rs: the validate_import_rows command.                               *)
(***************************************************************************)
validate_import_rows ==
    /\ results = Pending
    /\ results' = validate_rows(rows, mappings)
    /\ UNCHANGED <<rows, mappings, headers, suggestions, path, disk, parsed>>

NextValidate == validate_import_rows

SpecValidate == InitValidate /\ [][NextValidate]_vars

(***************************************************************************)
(* The file behind a path, as the decoders see it.                         *)
(*                                                                         *)
(* opens      the outcome of each File::open of the delimited-text         *)
(*            decoder, in order: "Ok", "NotFound" or another io::Error     *)
(* lines      the text lines: a record with its raw fields, a record that  *)
(*            is not valid UTF-8, or an empty line (the csv reader yields  *)
(*            no record for it)                                            *)
(* read_fault <<>> or <<pass, k>>: in that pass the read of record k (the  *)
(*            header is record 1) fails with an io::Error; the reader      *)
(*            yields the error and then ends                               *)
(* workbook   what open_workbook_auto finds: [open, sheets]                *)
(***************************************************************************)
Err(kind, detail) == [tag |-> "Err", value |-> [kind |-> kind, detail |-> detail]]

Ok(value) == [tag |-> "Ok", value |-> value]

\* MAX_ROWS is 10_000 in parser.rs; the model keeps the code's arithmetic on it
\* and scales the value so that files on both sides of the cap are enumerated.
MAX_ROWS == 3

\* take(MAX_ROWS) of n items keeps this many.
Capped(n) == IF n < MAX_ROWS THEN n ELSE MAX_ROWS

Record(fields) == [kind |-> "record", fields |-> fields]
InvalidUtf8 == [kind |-> "invalid_utf8", fields |-> <<>>]
EmptyLine == [kind |-> "empty_line", fields |-> <<>>]
IoError == [kind |-> "io_error", fields |-> <<>>]

\* csv_records of a reader that is not flexible: a record whose width differs
\* from the first record's is yielded as an error.
csv_records_strict(d, pass, trimmed) ==
    LET recs == SelectSeq(d.lines, LAMBDA l : l.kind # "empty_line")
    IN  [i \in 1..Len(recs) |->
            IF recs[i].kind = "record" /\ Len(recs[i].fields) # Len(recs[1].fields)
            THEN IoError
            ELSE IF recs[i].kind = "record" /\ trimmed
            THEN Record([j \in 1..Len(recs[i].fields) |-> trim(recs[i].fields[j])])
            ELSE recs[i]]

\* csv::Reader: the items its record iterator yields in pass `pass`, the header
\* record first.  Empty lines yield nothing; with Trim::All every field is trimmed.
csv_records(d, pass, trimmed) ==
    LET recs == SelectSeq(d.lines, LAMBDA l : l.kind # "empty_line")
        read == IF d.read_fault # <<>> /\ d.read_fault[1] = pass
                   /\ d.read_fault[2] <= Len(recs)
                THEN SubSeq(recs, 1, d.read_fault[2] - 1) \o <<IoError>>
                ELSE recs
    IN  [i \in 1..Len(read) |->
            IF read[i].kind = "record" /\ trimmed
            THEN Record([j \in 1..Len(read[i].fields) |-> trim(read[i].fields[j])])
            ELSE read[i]]

\* The items records() yields after the header: a reader whose header read
\* fails yields that error as its only item.
data_items(read) ==
    IF read = <<>> THEN <<>>
    ELSE IF read[1].kind # "record" THEN <<read[1]>>
    ELSE Tail(read)

\* Path::file_name, for paths that do not end in '/'.
file_name(p) ==
    LET slashes == {i \in 1..Len(p) : CharAt(p, i) = "/"}
        name    == IF slashes = {} THEN p ELSE SubSeq(p, MaxOf(slashes) + 1, Len(p))
    IN  IF name = "" \/ name = ".." THEN None ELSE name

\* Path::extension: the text after the last '.' of the file name, unless the
\* name has no '.' or only the one it starts with.
extension(p) ==
    LET name == file_name(p)
        dots == IF name = None THEN {} ELSE {i \in 1..Len(name) : CharAt(name, i) = "."}
    IN  IF dots = {} \/ MaxOf(dots) = 1 THEN None
        ELSE SubSeq(name, MaxOf(dots) + 1, Len(name))

all_blank_untrimmed(cells) == \A j \in 1..Len(cells) : cells[j] = ""

all_blank(cells) == \A j \in 1..Len(cells) : trim(cells[j]) = ""

\* records().take(MAX_ROWS).enumerate().filter_map(..) of the delimited-text
\* decoder, on the data items of the reading pass.
csv_rows_filter_first(items, idx) ==
    LET all    == [i \in 1..Len(items) |-> [n |-> idx + i + 1, item |-> items[i]]]
        kept   == SelectSeq(all, LAMBDA x : x.item.kind = "record"
                                            /\ ~all_blank(x.item.fields))
        capped == SubSeq(kept, 1, IF Len(kept) < MAX_ROWS THEN Len(kept) ELSE MAX_ROWS)
    IN  [i \in 1..Len(capped) |-> Row(capped[i].n, capped[i].item.fields)]

csv_rows_renumbered(items, idx) ==
    LET head == SubSeq(items, 1, IF Len(items) < MAX_ROWS - idx THEN Len(items)
                                 ELSE MAX_ROWS - idx)
        kept == SelectSeq(head, LAMBDA x : x.kind = "record" /\ ~all_blank(x.fields))
    IN  [i \in 1..Len(kept) |-> Row(idx + i + 1, kept[i].fields)]

csv_rows_until_malformed(items, idx) ==
    LET bad  == {i \in 1..Len(items) : items[i].kind # "record"}
        stop == IF bad = {} THEN Len(items) ELSE MinOf(bad) - 1
        all  == [i \in 1..Capped(stop) |-> [n |-> idx + i + 1, item |-> items[i]]]
        kept == SelectSeq(all, LAMBDA x : ~all_blank(x.item.fields))
    IN  [i \in 1..Len(kept) |-> Row(kept[i].n, kept[i].item.fields)]

RECURSIVE csv_rows(_, _)
csv_rows(items, idx) ==
    IF items = <<>> \/ idx >= MAX_ROWS THEN <<>>
    ELSE (IF Head(items).kind = "record" /\ ~all_blank(Head(items).fields)
          THEN <<Row(idx + 2, Head(items).fields)>>
          ELSE <<>>) \o csv_rows(Tail(items), idx + 1)

ParsedFile_truncated_late(name, type, hs, rs, total) ==
    [file_name  |-> name,
     file_type  |-> type,
     headers    |-> hs,
     rows       |-> rs,
     total_rows |-> total,
     truncated  |-> total > MAX_ROWS + 2]

ParsedFile_truncated_by_rows(name, type, hs, rs, total) ==
    [file_name  |-> name,
     file_type  |-> type,
     headers    |-> hs,
     rows       |-> rs,
     total_rows |-> total,
     truncated  |-> Len(rs) >= MAX_ROWS]

ParsedFile(name, type, hs, rs, total) ==
    [file_name  |-> name,
     file_type  |-> type,
     headers    |-> hs,
     rows       |-> rs,
     total_rows |-> total,
     truncated  |-> total > MAX_ROWS + 1]

csv_total_rows_of_reading_pass(d) ==
    Len(SelectSeq(SubSeq(data_items(csv_records(d, 3, TRUE)), 1,
                         Capped(Len(data_items(csv_records(d, 3, TRUE))))),
                  LAMBDA x : x.kind = "record" /\ ~all_blank(x.fields))) + 1

\* The counting pass: a second reader over the whole file, every item counted.
csv_total_rows(d) == Len(data_items(csv_records(d, 2, FALSE))) + 1

CsvParser_parse_late_header_check(p, d) ==
    LET name   == IF file_name(p) = None THEN "unknown.csv" ELSE file_name(p)
        first  == csv_records(d, 1, TRUE)
        hs     == IF first = <<>> THEN <<>> ELSE first[1].fields
        total  == csv_total_rows(d)
        rs     == csv_rows(data_items(csv_records(d, 3, TRUE)), 0)
    IN  IF d.opens[1] = "NotFound" THEN Err("FileNotFound", p)
        ELSE IF d.opens[1] # "Ok" THEN Err("ReadError", d.opens[1])
        ELSE IF first # <<>> /\ first[1].kind # "record"
        THEN Err("ParseError", first[1].kind)
        ELSE IF d.opens[2] # "Ok" THEN Err("ReadError", d.opens[2])
        ELSE IF d.opens[3] # "Ok" THEN Err("ReadError", d.opens[3])
        ELSE IF hs = <<>> THEN Err("EmptyFile", "")
        ELSE IF rs = <<>> THEN Err("EmptyFile", "")
        ELSE Ok(ParsedFile(name, "Csv", hs, rs, total))

CsvParser_parse(p, d) ==
    LET name   == IF file_name(p) = None THEN "unknown.csv" ELSE file_name(p)
        first  == csv_records(d, 1, TRUE)
        hs     == IF first = <<>> THEN <<>> ELSE first[1].fields
        total  == csv_total_rows(d)
        rs     == csv_rows(data_items(csv_records(d, 3, TRUE)), 0)
    IN  IF d.opens[1] = "NotFound" THEN Err("FileNotFound", p)
        ELSE IF d.opens[1] # "Ok" THEN Err("ReadError", d.opens[1])
        ELSE IF first # <<>> /\ first[1].kind # "record"
        THEN Err("ParseError", first[1].kind)
        ELSE IF hs = <<>> THEN Err("EmptyFile", "")
        ELSE IF d.opens[2] # "Ok" THEN Err("ReadError", d.opens[2])
        ELSE IF d.opens[3] # "Ok" THEN Err("ReadError", d.opens[3])
        ELSE IF rs = <<>> THEN Err("EmptyFile", "")
        ELSE Ok(ParsedFile(name, "Csv", hs, rs, total))

(***************************************************************************)
(* The workbook decoder.  A cell is [kind, v]: Empty, String, Int, Bool,   *)
(* Error (v names the CellErrorType) or Float (v is the value in           *)
(* hundredths).  A sheet is [readable, range]: whether worksheet_range     *)
(* can read its stream, and the rows of its used range, all of one width.  *)
(***************************************************************************)
Cell(kind, v) == [kind |-> kind, v |-> v]

RECURSIVE nat_to_string(_)
nat_to_string(n) ==
    IF n < 10 THEN SubSeq("0123456789", n + 1, n + 1)
    ELSE nat_to_string(n \div 10) \o SubSeq("0123456789", (n % 10) + 1, (n % 10) + 1)

int_to_string(i) == IF i < 0 THEN "-" \o nat_to_string(-i) ELSE nat_to_string(i)

cell_to_string_error_lost(cell) ==
    CASE cell.kind = "Empty"  -> ""
      [] cell.kind = "String" -> cell.v
      [] cell.kind = "Float"  ->
            IF cell.v % 100 = 0 THEN int_to_string(cell.v \div 100)
            ELSE nat_to_string(cell.v \div 100) \o "."
                 \o nat_to_string((cell.v % 100) \div 10) \o nat_to_string(cell.v % 10)
      [] cell.kind = "Int"    -> int_to_string(cell.v)
      [] cell.kind = "Bool"   -> IF cell.v THEN "true" ELSE "false"
      [] cell.kind = "Error"  -> ""

cell_to_string(cell) ==
    CASE cell.kind = "Empty"  -> ""
      [] cell.kind = "String" -> cell.v
      [] cell.kind = "Float"  ->
            IF cell.v % 100 = 0 THEN int_to_string(cell.v \div 100)
            ELSE nat_to_string(cell.v \div 100) \o "."
                 \o nat_to_string((cell.v % 100) \div 10) \o nat_to_string(cell.v % 10)
      [] cell.kind = "Int"    -> int_to_string(cell.v)
      [] cell.kind = "Bool"   -> IF cell.v THEN "true" ELSE "false"
      [] cell.kind = "Error"  -> "ERROR: " \o cell.v

row_to_strings(row) == [j \in 1..Len(row) |-> cell_to_string(row[j])]

\* rows().skip(1).take(MAX_ROWS).enumerate().filter_map(..) of the workbook
\* decoder, on the rows after the first.
excel_rows_filter_first(grid, idx) ==
    LET all    == [i \in 1..Len(grid) |->
                      [n |-> idx + i + 1, cells |-> row_to_strings(grid[i])]]
        kept   == SelectSeq(all, LAMBDA x : ~all_blank(x.cells))
        capped == SubSeq(kept, 1, Capped(Len(kept)))
    IN  [i \in 1..Len(capped) |-> Row(capped[i].n, capped[i].cells)]

excel_rows_keep_blank(grid, idx) ==
    [i \in 1..Capped(Len(grid)) |-> Row(idx + i + 1, row_to_strings(grid[i]))]

RECURSIVE excel_rows(_, _)
excel_rows(grid, idx) ==
    IF grid = <<>> \/ idx >= MAX_ROWS THEN <<>>
    ELSE (IF ~all_blank(row_to_strings(Head(grid)))
          THEN <<Row(idx + 2, row_to_strings(Head(grid)))>>
          ELSE <<>>) \o excel_rows(Tail(grid), idx + 1)

ExcelParser_parse_not_found_first(p, d) ==
    LET name  == IF file_name(p) = None THEN "unknown.xlsx" ELSE file_name(p)
        wb    == d.workbook
        msg   == wb.open
        sheet == wb.sheets[1]
        range == sheet.range
        hs    == row_to_strings(range[1])
        rs    == excel_rows(Tail(range), 0)
    IN  IF msg # "Ok"
        THEN (IF contains(msg, "not found") \/ contains(msg, "No such file")
              THEN Err("FileNotFound", p)
              ELSE IF contains(msg, "password") \/ contains(msg, "encrypted")
              THEN Err("PasswordProtected", "")
              ELSE Err("ReadError", msg))
        ELSE IF wb.sheets = <<>> THEN Err("EmptyFile", "")
        ELSE IF ~sheet.readable THEN Err("ParseError", "")
        ELSE IF range = <<>> THEN Err("EmptyFile", "")
        ELSE IF hs = <<>> THEN Err("EmptyFile", "")
        ELSE IF rs = <<>> THEN Err("EmptyFile", "")
        ELSE Ok(ParsedFile(name, "Xlsx", hs, rs, Len(range)))

ExcelParser_parse(p, d) ==
    LET name  == IF file_name(p) = None THEN "unknown.xlsx" ELSE file_name(p)
        wb    == d.workbook
        msg   == wb.open
        sheet == wb.sheets[1]
        range == sheet.range
        hs    == row_to_strings(range[1])
        rs    == excel_rows(Tail(range), 0)
    IN  IF msg # "Ok"
        THEN (IF contains(msg, "password") \/ contains(msg, "encrypted")
              THEN Err("PasswordProtected", "")
              ELSE IF contains(msg, "not found") \/ contains(msg, "No such file")
              THEN Err("FileNotFound", p)
              ELSE Err("ReadError", msg))
        ELSE IF wb.sheets = <<>> THEN Err("EmptyFile", "")
        ELSE IF ~sheet.readable THEN Err("ParseError", "")
        ELSE IF range = <<>> THEN Err("EmptyFile", "")
        ELSE IF hs = <<>> THEN Err("EmptyFile", "")
        ELSE IF rs = <<>> THEN Err("EmptyFile", "")
        ELSE Ok(ParsedFile(name, "Xlsx", hs, rs, Len(range)))

parse_import_file_of_case_sensitive(p, d) ==
    LET ext == IF extension(p) = None THEN "" ELSE extension(p)
    IN  IF ext \in {"xlsx", "xls"} THEN ExcelParser_parse(p, d)
        ELSE IF ext = "csv" THEN CsvParser_parse(p, d)
        ELSE Err("UnsupportedFormat", "Unsupported file format: ." \o ext)

\* mod.rs: the decoder is chosen from the lower-cased extension alone.
parse_import_file_of(p, d) ==
    LET ext == IF extension(p) = None THEN "" ELSE to_lowercase(extension(p))
    IN  IF ext \in {"xlsx", "xls"} THEN ExcelParser_parse(p, d)
        ELSE IF ext = "csv" THEN CsvParser_parse(p, d)
        ELSE Err("UnsupportedFormat", "Unsupported file format: ." \o ext)

(***************************************************************************)
(* parse_import_file and its inputs: a path, and the file behind it.       *)
(***************************************************************************)
MaxDataLines == 4

AllOk == <<"Ok", "Ok", "Ok">>
Denied == "Permission denied (os error 13)"
NoFault == <<>>

TextFile(opens, lines, fault) ==
    [opens      |-> opens,
     lines      |-> lines,
     read_fault |-> fault,
     workbook   |-> [open |-> "Zip error: invalid Zip archive", sheets |-> <<>>]]

Workbook(open, sheets) ==
    [opens      |-> AllOk,
     lines      |-> <<InvalidUtf8>>,
     read_fault |-> NoFault,
     workbook   |-> [open |-> open, sheets |-> sheets]]

MissingFile ==
    [opens      |-> <<"NotFound", "NotFound", "NotFound">>,
     lines      |-> <<>>,
     read_fault |-> NoFault,
     workbook   |-> [open   |-> "I/O error: No such file or directory (os error 2)",
                     sheets |-> <<>>]]

LockedFile ==
    [opens      |-> <<Denied, Denied, Denied>>,
     lines      |-> <<>>,
     read_fault |-> NoFault,
     workbook   |-> [open |-> "I/O error: " \o Denied, sheets |-> <<>>]]

HeaderLines ==
    { <<Record(<<"Manufacturer", "Model", "SKU", "Cost">>)>>,
      <<EmptyLine, Record(<<" A ", "B">>)>> }

DataLinePool ==
    { Record(<<"Poly", "Studio X50", "ABC123", "100">>),
      Record(<<" Crestron ", "DMPS">>),
      Record(<<"", " ", "\t", "">>),
      InvalidUtf8,
      EmptyLine }

\* Files without a header record, and files with one followed by data lines.
TextLines ==
    { <<>>, <<EmptyLine>>, <<InvalidUtf8>>,
      <<InvalidUtf8, Record(<<"Poly", "Studio X50", "ABC123", "100">>)>>,
      <<Record(<<"A", "B", "C">>), Record(<<"1", "2", "3">>),
        Record(<<"4", "5">>), Record(<<"6", "7", "8", "9">>)>> }
    \cup {h \o ds : h \in HeaderLines, ds \in SeqsUpTo(DataLinePool, MaxDataLines)}

SampleLines ==
    { <<>>,
      <<Record(<<"Manufacturer", "Model", "SKU", "Cost">>)>>,
      <<Record(<<"Manufacturer", "Model", "SKU", "Cost">>),
        Record(<<"Poly", "Studio X50", "ABC123", "100">>)>>,
      <<Record(<<"Manufacturer", "Model", "SKU", "Cost">>),
        Record(<<"", " ", "\t", "">>),
        InvalidUtf8,
        Record(<<"Poly", "Studio X50", "ABC123", "100">>)>> }

OpenOutcomes == {"Ok", "NotFound", Denied}

TextFiles ==
    {TextFile(AllOk, ls, NoFault) : ls \in TextLines}
    \cup {TextFile(<<o1, o2, o3>>, ls, NoFault) :
            o1 \in OpenOutcomes, o2 \in OpenOutcomes, o3 \in OpenOutcomes,
            ls \in SampleLines}

\* A read that fails part-way: in the pass that reads the headers only record
\* 1 is read; the counting and the reading pass read every record.
NumRecords(ls) == Len(SelectSeq(ls, LAMBDA l : l.kind # "empty_line"))

FaultyTextFiles ==
    UNION { {TextFile(AllOk, ls, <<pass, k>>) :
                k \in {n \in 1..NumRecords(ls) : pass = 1 => n = 1}} :
            ls \in SampleLines, pass \in 1..3 }

HeaderRowPool ==
    { <<Cell("String", "Manufacturer"), Cell("String", "Cost"), Cell("String", "Active")>>,
      <<Cell("String", " Name "), Cell("Empty", ""), Cell("Bool", TRUE)>> }

DataRowPool ==
    { <<Cell("String", "Poly"), Cell("Float", 10000), Cell("Bool", TRUE)>>,
      <<Cell("Int", 42), Cell("Float", 1999), Cell("Bool", FALSE)>>,
      <<Cell("Empty", ""), Cell("Empty", ""), Cell("Empty", "")>>,
      <<Cell("String", " "), Cell("Empty", ""), Cell("Empty", "")>>,
      <<Cell("String", "Shure"), Cell("Error", "Div0"), Cell("Empty", "")>> }

\* The used range ends at the last row that holds a cell.
Ranges ==
    {<<>>} \cup
    { r \in {<<h>> \o ds : h \in HeaderRowPool, ds \in SeqsUpTo(DataRowPool, MaxDataLines)} :
        \E j \in 1..Len(r[Len(r)]) : r[Len(r)][j].kind # "Empty" }

OpenMessages ==
    { "I/O error: No such file or directory (os error 2)",
      "I/O error: The system cannot find the file specified. (os error 2)",
      "I/O error: " \o Denied,
      "Workbook is password protected",
      "Workbook is encrypted",
      "File not found 'xl/workbook.xml'",
      "File not found 'xl/password.xml'",
      "Zip error: invalid Zip archive" }

Workbooks ==
    {Workbook("Ok", <<[readable |-> TRUE, range |-> r]>>) : r \in Ranges}
    \cup {Workbook("Ok", <<>>),
          Workbook("Ok", <<[readable |-> FALSE, range |-> <<>>]>>)}
    \cup {Workbook(m, <<>>) : m \in OpenMessages}

PathPool ==
    { "/data/prices.csv", "/data/PRICES.CSV", "prices.Csv",
      "/data/p.xlsx", "/data/P.Xlsx", "/data/old.xls", "/data/OLD.XLS",
      "/test/file.txt", "/data/sheet.PDF", "/data/noext", "/data/.csv",
      "/data/archive.csv.bak", "/data.csv/prices" }

SampleFiles ==
    { MissingFile, LockedFile,
      TextFile(AllOk,
               <<Record(<<"Manufacturer", "Model", "SKU", "Cost">>),
                 Record(<<"Poly", "Studio X50", "ABC123", "100">>)>>,
               NoFault),
      Workbook("Ok", <<[readable |-> TRUE,
                        range |-> << <<Cell("String", "Manufacturer"), Cell("String", "Cost")>>,
                                     <<Cell("String", "Poly"), Cell("Float", 1999)>> >>]>>) }

ParseInputs ==
    (PathPool \X SampleFiles)
    \cup ({"/data/prices.csv"} \X TextFiles)
    \cup ({"/data/p.xlsx"} \X Workbooks)

FaultInputs == {"/data/prices.csv"} \X FaultyTextFiles

InitParseOn(inputs) ==
    /\ \E in \in inputs : path = in[1] /\ disk = in[2]
    /\ parsed = Pending
    /\ headers = <<>>
    /\ suggestions = Pending
    /\ rows = <<>>
    /\ mappings = <<>>
    /\ results = Pending

InitParse == InitParseOn(ParseInputs)

InitParseFaults == InitParseOn(ParseInputs \cup FaultInputs)

parse_import_file ==
    /\ parsed = Pending
    /\ parsed' = parse_import_file_of(path, disk)
    /\ UNCHANGED <<path, disk, headers, suggestions, rows, mappings, results>>

NextParse == parse_import_file

SpecParse == InitParse /\ [][NextParse]_vars

SpecParseFaults == InitParseFaults /\ [][NextParse]_vars

(***************************************************************************)
(* One logical table stored twice: as a delimited-text file, a record per  *)
(* row, and as a workbook whose first sheet holds a string cell per cell.  *)
(* The path's extension says which of the two files is decoded.            *)
(***************************************************************************)
TableHeaders == { <<"Manufacturer", "Cost">>, <<"A", "B">> }

TableRowPool == { <<"Poly", "100">>, <<"Crestron", "">>, <<"", "19.99">>, <<"", "">> }

Tables ==
    {<<>>} \cup {<<h>> \o ds : h \in TableHeaders, ds \in SeqsUpTo(TableRowPool, MaxDataLines)}

TableFile(t) ==
    [opens      |-> AllOk,
     lines      |-> [i \in 1..Len(t) |-> Record(t[i])],
     read_fault |-> NoFault,
     workbook   |-> [open   |-> "Ok",
                     sheets |-> <<[readable |-> TRUE,
                                   range |-> [i \in 1..Len(t) |->
                                                [j \in 1..Len(t[i]) |->
                                                    Cell("String", t[i][j])]]]>>]]

InitTable == InitParseOn({"/data/prices.csv", "/data/p.xlsx"} \X {TableFile(t) : t \in Tables})

SpecTable == InitTable /\ [][NextParse]_vars

(***************************************************************************)
(* Decoding and validating one workbook: validate_import_rows is called on *)
(* a row that parse_import_file returns for the file, under a mapping of   *)
(* the workbook's columns.                                                 *)
(***************************************************************************)
ImportRowPool ==
    { <<Cell("String", "Poly"), Cell("Float", 1999), Cell("String", "25")>>,
      <<Cell("String", "Shure"), Cell("Error", "Div0"), Cell("Error", "NA")>>,
      <<Cell("Empty", ""), Cell("Error", "Value"), Cell("Empty", "")>>,
      <<Cell("String", "Biamp"), Cell("Empty", ""), Cell("Float", 10000)>> }

ImportWorkbooks ==
    { Workbook("Ok", <<[readable |-> TRUE,
                        range |-> << <<Cell("String", "Manufacturer"),
                                       Cell("String", "Cost"),
                                       Cell("String", "MSRP")>> >> \o ds]>>) :
        ds \in SeqsUpTo(ImportRowPool, 2) }

ImportMappings ==
    { << Mapping(0, "Manufacturer", "Manufacturer"),
         Mapping(0, "Manufacturer", "Model"),
         Mapping(0, "Manufacturer", "Sku"),
         Mapping(1, "Cost", "Cost") >>,
      << Mapping(0, "Manufacturer", "Manufacturer"),
         Mapping(0, "Manufacturer", "Model"),
         Mapping(0, "Manufacturer", "Sku"),
         Mapping(1, "Cost", "Cost"),
         Mapping(2, "MSRP", "Msrp") >>,
      << Mapping(2, "MSRP", "Msrp") >> }

DecodedRows(p, d) ==
    LET r == parse_import_file_of(p, d)
    IN  IF r.tag = "Ok" THEN {<<r.value.rows[i]>> : i \in 1..Len(r.value.rows)} ELSE {<<>>}

InitImport ==
    /\ path \in {"/data/p.xlsx", "/data/old.xls"}
    /\ disk \in ImportWorkbooks
    /\ parsed = Pending
    /\ rows \in DecodedRows(path, disk)
    /\ mappings \in ImportMappings
    /\ results = Pending
    /\ headers = <<>>
    /\ suggestions = Pending

NextImport == parse_import_file \/ validate_import_rows

SpecImport == InitImport /\ [][NextImport]_vars

(***************************************************************************)
(* Concurrent invocations: the three commands are async fns without a      *)
(* State parameter or a static; each is in flight on its own arguments and *)
(* they return in any order.                                               *)
(***************************************************************************)
ConcurrentHeaders ==
    { <<"Manufacturer", "Model", "SKU", "Cost">>,
      <<" MFG ", "Part Number">>,
      <<"Notes">> }

InitConcurrent ==
    /\ \E in \in PathPool \X SampleFiles : path = in[1] /\ disk = in[2]
    /\ parsed = Pending
    /\ headers \in ConcurrentHeaders
    /\ suggestions = Pending
    /\ rows \in {<<r>> : r \in SampleRows}
    /\ mappings = CanonicalMappings
    /\ results = Pending

NextConcurrent == parse_import_file \/ detect_headers \/ validate_import_rows

SpecConcurrent == InitConcurrent /\ [][NextConcurrent]_vars

(***************************************************************************)
(* The commands together: each invocation is one of them, on its inputs.   *)
(***************************************************************************)
Init == InitDetect \/ InitValidate \/ InitParseFaults

Next == detect_headers \/ validate_import_rows \/ parse_import_file

Spec == Init /\ [][Next]_vars


(***************************************************************************)
(* Properties of the Validator (checked under SpecValidate).               *)
(***************************************************************************)
Validated == results.tag = "Ok"

RangeOf(seq) == {seq[i] : i \in 1..Len(seq)}

RequiredFields == {"Manufacturer", "Model", "Sku", "Cost"}

\* C1: every ValidationResult has status Invalid iff errors is non-empty
\* (whatever missing_fields holds), Incomplete iff errors is empty and
\* missing_fields is not, Valid iff both are empty.
C1_StatusPriority ==
    Validated =>
        \A i \in 1..Len(results.value) :
            LET r == results.value[i]
            IN  /\ r.status \in {"Valid", "Incomplete", "Invalid"}
                /\ (r.status = "Invalid") <=> (r.errors # <<>>)
                /\ (r.status = "Incomplete") <=> (r.errors = <<>> /\ r.missing_fields # <<>>)
                /\ (r.status = "Valid") <=> (r.errors = <<>> /\ r.missing_fields = <<>>)

\* A row with a format error and a missing required field was judged Invalid,
\* beside a row with neither.
C1_Witness ==
    /\ Validated
    /\ \E i \in 1..Len(results.value) :
          /\ results.value[i].errors # <<>>
          /\ results.value[i].missing_fields # <<>>
          /\ results.value[i].status = "Invalid"
    /\ \E i \in 1..Len(results.value) : results.value[i].status = "Valid"

\* C2: validate_rows never returns an error: whatever the rows and the
\* mappings, it returns Ok with one ValidationResult per input row, in input
\* order, result i carrying the row_number of row i.
C2_OneResultPerRow ==
    /\ results.tag \in {"Pending", "Ok"}
    /\ Validated =>
          /\ Len(results.value) = Len(rows)
          /\ \A i \in 1..Len(rows) : results.value[i].row_number = rows[i].row_number

\* Two rows given out of file order, the first of them Invalid, each got its
\* result at its own position.
C2_Witness ==
    /\ Validated
    /\ Len(rows) = 2
    /\ rows[1].row_number > rows[2].row_number
    /\ results.value[1].status = "Invalid"
    /\ results.value[2].row_number = rows[2].row_number

\* A mapping targets `field` and addresses a cell of the row that is not blank.
Present(row, field) ==
    \E k \in 1..Len(mappings) :
        /\ mappings[k].target_field = field
        /\ mappings[k].source_column < Len(row.cells)
        /\ trim(row.cells[mappings[k].source_column + 1]) # ""

\* The cell a mapping addresses exists and is blank.
BlankCell(row, m) ==
    /\ m.source_column < Len(row.cells)
    /\ trim(row.cells[m.source_column + 1]) = ""

\* C3: missing_fields is exactly the set of required fields that are absent,
\* a required field being present when a mapping targets it and addresses an
\* existing cell whose trimmed value is non-empty; no other field appears in
\* it.  A row whose mapped Sku cell is empty while Manufacturer, Model and a
\* numeric Cost are filled is Incomplete with missing_fields = [Sku].
C3_MissingFields ==
    Validated =>
        \A i \in 1..Len(rows) :
            LET r == results.value[i]
            IN  /\ RangeOf(r.missing_fields) = {f \in RequiredFields : ~Present(rows[i], f)}
                /\ Len(r.missing_fields) = Cardinality(RangeOf(r.missing_fields))
                /\ ( /\ \E k \in 1..Len(mappings) : mappings[k].target_field = "Sku"
                     /\ \A k \in 1..Len(mappings) :
                           mappings[k].target_field = "Sku" => BlankCell(rows[i], mappings[k])
                     /\ \A f \in {"Manufacturer", "Model", "Cost"} : Present(rows[i], f)
                     /\ r.errors = <<>> )
                   => (r.status = "Incomplete" /\ r.missing_fields = <<"Sku">>)

\* The row of test_validate_row_missing_sku under the mapping of that test.
C3_Witness ==
    /\ Validated
    /\ mappings = SubSeq(CanonicalMappings, 1, 4)
    /\ rows = << Row(3, <<"Poly", "Studio X50", "", "2500.00">>) >>
    /\ results.value[1].status = "Incomplete"
    /\ results.value[1].missing_fields = <<"Sku">>

\* The first mapping that targets `field`, when there is one.
HasMapping(field) == \E k \in 1..Len(mappings) : mappings[k].target_field = field

FirstMapping(field) ==
    mappings[CHOOSE k \in 1..Len(mappings) :
                /\ mappings[k].target_field = field
                /\ \A j \in 1..(k - 1) : mappings[j].target_field # field]

\* C4: with several mappings targeting one required field the first in list
\* order decides: the field is present iff the first mapping targeting it
\* addresses an existing, non-blank cell.
C4_FirstMappingDecides ==
    Validated =>
        \A i \in 1..Len(rows) : \A f \in RequiredFields :
            HasMapping(f) =>
                LET m == FirstMapping(f)
                    first_present ==
                        /\ m.source_column < Len(rows[i].cells)
                        /\ trim(rows[i].cells[m.source_column + 1]) # ""
                IN  (f \in RangeOf(results.value[i].missing_fields)) <=> ~first_present

\* A decimal number: Sign? (Digit+ | Digit+ '.' Digit* | Digit* '.' Digit+) Exp?
IsRealNumber(s) ==
    LET b == IF s # "" /\ CharAt(s, 1) \in {"+", "-"} THEN Tail(s) ELSE s
    IN  IsNumber(b)

\* The errors the numeric guard of the specification reports for one field.
GuardErrors(row, field, label) ==
    IF ~HasMapping(field) \/ FirstMapping(field).source_column >= Len(row.cells)
    THEN <<>>
    ELSE LET raw       == row.cells[FirstMapping(field).source_column + 1]
             remainder == replace(raw, {"$", ",", " "})
         IN  IF remainder # "" /\ ~IsRealNumber(remainder)
             THEN << "Invalid " \o label \o " format: '" \o raw \o "'" >>
             ELSE <<>>

\* C5: for the first mapping targeting Cost, and the first targeting Msrp if
\* there is one, the raw cell has '$', ',' and space removed, and an error
\* naming the raw value is appended iff the remainder is non-empty and does
\* not parse as a real number; a Cost cell "TBD" makes the row Invalid and
\* "$2,500.00" yields no error.
C5_NumericGuard ==
    Validated =>
        \A i \in 1..Len(rows) :
            results.value[i].errors =
                GuardErrors(rows[i], "Cost", "cost") \o GuardErrors(rows[i], "Msrp", "MSRP")

C27_ValidHasNumericCost ==
    Validated =>
        \A i \in 1..Len(rows) :
            results.value[i].status = "Valid" =>
                /\ HasMapping("Cost")
                /\ FirstMapping("Cost").source_column < Len(rows[i].cells)
                /\ LET raw == rows[i].cells[FirstMapping("Cost").source_column + 1]
                       remainder == replace(raw, {"$", ",", " "})
                   IN  remainder # "" /\ IsRealNumber(remainder)

\* The mappings that name a field, in order.
Targeted == SelectSeq(mappings, LAMBDA m : m.target_field # None)

MentionsCost(e) == contains(e, "Invalid cost format")

MentionsMsrp(e) == contains(e, "Invalid MSRP format")

\* The parts of C30 that do not depend on how several mappings of one field
\* are resolved: a mapping without target is ignored; a required field that
\* no mapping targets is missing in every row, and with no mapping at all
\* every row is Incomplete with the four required fields missing and no
\* error; a first Cost or MSRP mapping past the row's width yields no format
\* error; MSRP is never missing, and no MSRP error arises from an unmapped or
\* blank MSRP.
C30_UnsuppliedHandledQuietly ==
    Validated =>
        \A i \in 1..Len(rows) :
            LET r     == results.value[i]
                width == Len(rows[i].cells)
            IN  /\ r = validate_single_row(rows[i], Targeted)
                /\ \A f \in RequiredFields :
                      ~HasMapping(f) => f \in RangeOf(r.missing_fields)
                /\ mappings = <<>> =>
                      /\ r.status = "Incomplete"
                      /\ r.missing_fields = <<"Manufacturer", "Model", "Sku", "Cost">>
                      /\ r.errors = <<>>
                /\ (HasMapping("Cost") /\ FirstMapping("Cost").source_column >= width) =>
                      ~\E e \in RangeOf(r.errors) : MentionsCost(e)
                /\ (HasMapping("Msrp") /\ FirstMapping("Msrp").source_column >= width) =>
                      ~\E e \in RangeOf(r.errors) : MentionsMsrp(e)
                /\ "Msrp" \notin RangeOf(r.missing_fields)
                /\ (\/ ~HasMapping("Msrp")
                    \/ FirstMapping("Msrp").source_column >= width
                    \/ trim(rows[i].cells[FirstMapping("Msrp").source_column + 1]) = "") =>
                      ~\E e \in RangeOf(r.errors) : MentionsMsrp(e)

\* C30: as above, and a Cost mapping whose source_column lies beyond the row's
\* width leaves Cost reported missing.
C30_UnsuppliedMappings ==
    /\ C30_UnsuppliedHandledQuietly
    /\ Validated =>
          \A i \in 1..Len(rows) :
              (HasMapping("Cost") /\ FirstMapping("Cost").source_column >= Len(rows[i].cells))
                  => "Cost" \in RangeOf(results.value[i].missing_fields)

(***************************************************************************)
(* Properties of the HeaderMapper (checked under SpecDetect).              *)
(***************************************************************************)
Detected == suggestions.tag = "Ok"

\* The header as the matching sees it.
Normalized(h) == trim(to_lowercase(h))

IsAlias(n) == n \in AliasHeaders

\* Some substring rule of the second tier is satisfied.
Tier2Rule(n) ==
    \E t \in {"manufacturer", "mfg", "brand", "model", "sku", "part", "item",
              "cost", "price", "desc"} : contains(n, t)

\* C7: the confidence of every suggestion is 0.0, 0.6, 0.7 or 0.95: 0.95 iff
\* the normalized header equals an alias of the exact-match table, 0.6 or 0.7
\* iff it equals no alias but satisfies a substring rule, 0.0 iff neither; and
\* suggested_field is none iff the confidence is 0.0.
C7_ConfidenceTiers ==
    Detected =>
        \A i \in 1..Len(suggestions.value) :
            LET g == suggestions.value[i]
                n == Normalized(headers[i])
            IN  /\ g.confidence \in {0, 60, 70, 95}
                /\ (g.confidence = 95) <=> IsAlias(n)
                /\ (g.confidence \in {60, 70}) <=> (~IsAlias(n) /\ Tier2Rule(n))
                /\ (g.confidence = 0) <=> (~IsAlias(n) /\ ~Tier2Rule(n))
                /\ (g.suggested_field = None) <=> (g.confidence = 0)

\* A padded, mixed-case alias was scored 0.95.
C7_Witness ==
    /\ Detected
    /\ headers = <<" Mfg ">>
    /\ suggestions.value[1].confidence = 95
    /\ suggestions.value[1].suggested_field = "Manufacturer"

\* C8: detect_header_mappings never fails and returns one HeaderSuggestion
\* per header, in header order, with the 0-based position as column_index and
\* the verbatim text as header; the field and confidence of an entry are those
\* the header receives alone, whatever its position and the other headers.
C8_OnePerHeader ==
    /\ suggestions.tag \in {"Pending", "Ok"}
    /\ Detected =>
          /\ Len(suggestions.value) = Len(headers)
          /\ \A i \in 1..Len(headers) :
                LET g     == suggestions.value[i]
                    alone == detect_header_mappings(<<headers[i]>>).value[1]
                IN  /\ g.column_index = i - 1
                    /\ g.header = headers[i]
                    /\ g.suggested_field = alone.suggested_field
                    /\ g.confidence = alone.confidence

\* Two columns received the same field, each at its own index.
C8_Witness ==
    /\ Detected
    /\ headers = <<"MFG", "Manufacturer">>
    /\ suggestions.value[1].column_index = 0
    /\ suggestions.value[2].column_index = 1
    /\ suggestions.value[1].suggested_field = "Manufacturer"
    /\ suggestions.value[2].suggested_field = "Manufacturer"

\* The fields in the order the exact-match table declares them.
DeclarationOrder ==
    <<"Manufacturer", "Model", "Sku", "Category", "Subcategory", "Description", "Cost",
      "Msrp", "Height", "Width", "Depth", "Weight", "Voltage", "Wattage", "Certifications",
      "ImageUrl">>

\* The aliases the table lists under `field`.
AliasesOf(field) ==
    UNION {RangeOf(high_confidence_mappings[i].patterns) :
              i \in {k \in 1..Len(high_confidence_mappings) :
                        high_confidence_mappings[k].field = field}}

\* C9: when the normalized header equals an alias, the suggested field is the
\* first field in declaration order whose alias list holds it, at 0.95; "w",
\* listed under Width and Wattage, always gives Width, and an exact alias wins
\* over the substring rules ("item description" gives Description at 0.95).
C9_FirstAliasWins ==
    Detected =>
        \A i \in 1..Len(headers) :
            LET g == suggestions.value[i]
                n == Normalized(headers[i])
            IN  /\ IsAlias(n) =>
                      /\ g.confidence = 95
                      /\ \E k \in 1..Len(DeclarationOrder) :
                            /\ g.suggested_field = DeclarationOrder[k]
                            /\ n \in AliasesOf(DeclarationOrder[k])
                            /\ \A j \in 1..(k - 1) : n \notin AliasesOf(DeclarationOrder[j])
                /\ n = "w" => g.suggested_field = "Width"
                /\ n = "item description" =>
                      (g.suggested_field = "Description" /\ g.confidence = 95)

\* The header "W", an alias of Width and of Wattage, was resolved.
C9_Witness ==
    /\ Detected
    /\ headers = <<"W">>
    /\ "w" \in AliasesOf("Width") \cap AliasesOf("Wattage")
    /\ suggestions.value[1].suggested_field = "Width"

\* The decision list of the second tier.
Tier2Decision(n) ==
    CASE contains(n, "manufacturer") \/ contains(n, "mfg") \/ contains(n, "brand")
            -> <<"Manufacturer", 70>>
      [] OTHER ->
    CASE contains(n, "model") -> <<"Model", 70>>
      [] OTHER ->
    CASE contains(n, "sku") \/ contains(n, "part") \/ contains(n, "item") -> <<"Sku", 70>>
      [] OTHER ->
    CASE (contains(n, "cost") \/ contains(n, "price"))
            /\ (contains(n, "list") \/ contains(n, "msrp") \/ contains(n, "retail"))
            -> <<"Msrp", 60>>
      [] contains(n, "cost") \/ contains(n, "price") -> <<"Cost", 60>>
      [] OTHER ->
    CASE contains(n, "desc") -> <<"Description", 70>>
      [] OTHER -> <<None, 0>>

\* C10: when no alias matches, the first satisfied rule of the decision list
\* manufacturer/mfg/brand, model, sku/part/item, cost/price (Msrp with
\* list/msrp/retail, else Cost, at 0.6), desc decides, even if later rules match
\* too: "part" with "price" gives Sku, "Dealer Cost USD" gives Cost.
C10_Tier2DecisionList ==
    Detected =>
        \A i \in 1..Len(headers) :
            LET g == suggestions.value[i]
                n == Normalized(headers[i])
            IN  /\ ~IsAlias(n) => <<g.suggested_field, g.confidence>> = Tier2Decision(n)
                /\ (~IsAlias(n) /\ contains(n, "part") /\ contains(n, "price")
                        /\ ~(contains(n, "manufacturer") \/ contains(n, "mfg")
                                \/ contains(n, "brand") \/ contains(n, "model")))
                      => g.suggested_field = "Sku"
                /\ headers[i] = "Dealer Cost USD" =>
                      (g.suggested_field = "Cost" /\ g.confidence >= 60)

\* A header holding "part" and "price", no alias, was resolved by the earlier rule.
C10_Witness ==
    /\ Detected
    /\ headers = <<"part price">>
    /\ ~IsAlias(Normalized(headers[1]))
    /\ suggestions.value[1].suggested_field = "Sku"
    /\ suggestions.value[1].confidence = 70


\* C11: matching ignores letter case and leading/trailing whitespace: the field
\* and confidence computed for a header h are those computed for
\* lowercase(trim(h)); "MFG", "mfg" and " Mfg " all give Manufacturer at 0.95.
C11_CaseAndPaddingIgnored ==
    Detected =>
        \A i \in 1..Len(headers) :
            LET g == suggestions.value[i]
                n == suggest_field_for_header(to_lowercase(trim(headers[i])))
            IN  /\ g.suggested_field = n.field
                /\ g.confidence = n.confidence
                /\ headers[i] \in {"MFG", "mfg", " Mfg "} =>
                      (g.suggested_field = "Manufacturer" /\ g.confidence = 95)

\* An upper-case header was matched as its lower-case alias.
C11_Witness ==
    /\ Detected
    /\ headers = <<"MFG">>
    /\ to_lowercase(trim(headers[1])) = "mfg"
    /\ suggestions.value[1].suggested_field = "Manufacturer"
    /\ suggestions.value[1].confidence = 95


(***************************************************************************)
(* Properties of the decoders (checked under SpecParse).                   *)
(*                                                                         *)
(* The source is described from the file itself: its data records are the  *)
(* records after the header, each well-formed or not, with its cells.      *)
(***************************************************************************)
Decoded == parsed.tag = "Ok"

Failed(kind) == parsed.tag = "Err" /\ parsed.value.kind = kind

Decoder ==
    LET ext == IF extension(path) = None THEN "" ELSE to_lowercase(extension(path))
    IN  IF ext = "csv" THEN "Csv" ELSE IF ext \in {"xlsx", "xls"} THEN "Xlsx" ELSE None

SourceRecords ==
    IF Decoder = "Csv"
    THEN LET recs == SelectSeq(disk.lines, LAMBDA l : l.kind # "empty_line")
         IN  [i \in 1..Len(recs) |->
                [well_formed |-> recs[i].kind = "record",
                 cells |-> [j \in 1..Len(recs[i].fields) |-> trim(recs[i].fields[j])]]]
    ELSE IF Decoder = "Xlsx" /\ disk.workbook.open = "Ok" /\ disk.workbook.sheets # <<>>
    THEN LET range == disk.workbook.sheets[1].range
         IN  [i \in 1..Len(range) |->
                [well_formed |-> TRUE, cells |-> row_to_strings(range[i])]]
    ELSE <<>>

\* The data records of the source: DataRecord(k) is the k-th after the header.
NumData == IF SourceRecords = <<>> THEN 0 ELSE Len(SourceRecords) - 1

DataRecord(k) == SourceRecords[k + 1]

Blank(r) == \A j \in 1..Len(r.cells) : trim(r.cells[j]) = ""

Usable(r) == r.well_formed /\ ~Blank(r)

\* C12 as stated: the number of returned rows is min(number of non-blank data
\* rows of the source, MAX_ROWS).  Stated for sources whose records are all
\* well-formed, which is where the claim is most defensible.
C12_RowCountIsCappedNonBlankCount ==
    (Decoded /\ \A k \in 1..NumData : DataRecord(k).well_formed) =>
        Len(parsed.value.rows)
            = Capped(Cardinality({k \in 1..NumData : ~Blank(DataRecord(k))}))

\* C12, amended: the number of returned rows is the number of non-blank,
\* well-formed records among the first MAX_ROWS data records of the source; no
\* returned row has all cells blank, and there are at most MAX_ROWS rows.
C12_RowCountWithinCap ==
    Decoded =>
        /\ Len(parsed.value.rows)
              = Cardinality({k \in 1..Capped(NumData) : Usable(DataRecord(k))})
        /\ \A i \in 1..Len(parsed.value.rows) :
              \E j \in 1..Len(parsed.value.rows[i].cells) :
                  trim(parsed.value.rows[i].cells[j]) # ""
        /\ Len(parsed.value.rows) <= MAX_ROWS

C12_Witness ==
    /\ Decoded
    /\ NumData > MAX_ROWS
    /\ \E k \in 1..MAX_ROWS : Blank(DataRecord(k))
    /\ \A k \in 1..NumData : DataRecord(k).well_formed
    /\ Len(parsed.value.rows) < MAX_ROWS
    /\ Cardinality({k \in 1..NumData : ~Blank(DataRecord(k))}) >= MAX_ROWS


\* The data positions whose record is returned: usable, and within the cap.
ReturnedOf(src) == {k \in 1..Capped(Len(src) - 1) : Usable(src[k + 1])}

Returned == ReturnedOf(SourceRecords)

\* The i-th of the positions ks, in source order.
Position(ks, i) == CHOOSE k \in ks : Cardinality({m \in ks : m <= k}) = i

\* C13: row_number values are unique, strictly increasing and at least 2, and
\* the row returned for the k-th data record of the source (blank and malformed
\* records counted) has row_number k + 1 and that record's cells.
C13_RowNumbersFollowSource ==
    Decoded =>
        LET rs  == parsed.value.rows
            src == SourceRecords
            ks  == ReturnedOf(src)
        IN  /\ \A i \in 1..Len(rs) : rs[i].row_number >= 2
            /\ \A i, j \in 1..Len(rs) : i < j => rs[i].row_number < rs[j].row_number
            /\ Len(rs) = Cardinality(ks)
            /\ \A i \in 1..Len(rs) :
                  /\ rs[i].row_number = Position(ks, i) + 1
                  /\ rs[i].cells = src[Position(ks, i) + 1].cells
            /\ Usable(src[2]) => rs[1].row_number = 2

C13_Witness ==
    /\ Decoded
    /\ Len(parsed.value.rows) = 1
    /\ ~Usable(DataRecord(1))
    /\ parsed.value.rows[1].row_number = 3
    /\ parsed.value.rows[1].cells = DataRecord(2).cells


\* C14: in every ParsedFile, truncated is exactly total_rows > MAX_ROWS + 1.
C14_TruncatedIffOverCap ==
    Decoded => (parsed.value.truncated <=> parsed.value.total_rows > MAX_ROWS + 1)

C14_Witness ==
    /\ Decoded
    /\ parsed.value.truncated
    /\ parsed.value.total_rows = MAX_ROWS + 2
    /\ Len(parsed.value.rows) < MAX_ROWS

\* The other side of the boundary: exactly MAX_ROWS data rows, all returned.
C14_WitnessAtCap ==
    /\ Decoded
    /\ ~parsed.value.truncated
    /\ parsed.value.total_rows = MAX_ROWS + 1
    /\ Len(parsed.value.rows) = MAX_ROWS


\* C15: total_rows is the row count of the source: the header plus every data
\* record, blank, malformed and beyond the cap included; it is neither bounded
\* by MAX_ROWS + 1 nor reduced by the records that were dropped.
C15_TotalRowsIsSourceCount ==
    Decoded =>
        /\ parsed.value.total_rows = 1 + NumData
        /\ parsed.value.total_rows
              = 1 + Cardinality({k \in 1..NumData : Usable(DataRecord(k))})
                  + Cardinality({k \in 1..NumData : DataRecord(k).well_formed
                                                     /\ Blank(DataRecord(k))})
                  + Cardinality({k \in 1..NumData : ~DataRecord(k).well_formed})
        /\ parsed.value.total_rows >= 1 + Len(parsed.value.rows)

C15_Witness ==
    /\ Decoded
    /\ parsed.value.total_rows = MAX_ROWS + 2
    /\ \E k \in 1..NumData : DataRecord(k).well_formed /\ Blank(DataRecord(k))
    /\ \E k \in 1..NumData : ~DataRecord(k).well_formed
    /\ Len(parsed.value.rows) = 1


\* The decoder chosen for the path can read the file to its end.
Readable ==
    \/ Decoder = "Csv" /\ disk.opens = AllOk /\ disk.read_fault = NoFault
    \/ /\ Decoder = "Xlsx"
       /\ disk.workbook.open = "Ok"
       /\ disk.workbook.sheets # <<>>
       /\ disk.workbook.sheets[1].readable

HasHeader ==
    /\ SourceRecords # <<>>
    /\ SourceRecords[1].well_formed
    /\ SourceRecords[1].cells # <<>>

\* C16: a source with a header row and no usable data row (none at all, or only
\* blank ones) fails with EmptyFile, and every ParsedFile has at least one row.
C16_NoUsableRowIsEmptyFile ==
    /\ (Readable /\ HasHeader /\ parsed # Pending
        /\ ~\E k \in 1..NumData : Usable(DataRecord(k))) => Failed("EmptyFile")
    /\ Decoded => Len(parsed.value.rows) >= 1

C16_Witness ==
    /\ Readable /\ HasHeader
    /\ NumData >= 1
    /\ \A k \in 1..NumData : DataRecord(k).well_formed /\ Blank(DataRecord(k))
    /\ \E k \in 1..NumData : \E j \in 1..Len(DataRecord(k).cells) :
          DataRecord(k).cells[j] # ""
    /\ Failed("EmptyFile")

\* The header-only file of the tests.
C16_WitnessHeaderOnly ==
    /\ Readable /\ HasHeader /\ NumData = 0 /\ Decoder = "Csv"
    /\ Failed("EmptyFile")


\* The decoder chosen for the path gets as far as the headers.
HeadersRead ==
    \/ Decoder = "Csv" /\ disk.opens[1] = "Ok"
    \/ /\ Decoder = "Xlsx"
       /\ disk.workbook.open = "Ok"
       /\ disk.workbook.sheets # <<>> => disk.workbook.sheets[1].readable

\* C17: a source that produces zero headers fails with EmptyFile, whatever
\* the later passes over the data would have met; every ParsedFile has a
\* non-empty headers sequence.
C17_NoHeadersIsEmptyFile ==
    /\ (parsed # Pending /\ HeadersRead /\ SourceRecords = <<>>) => Failed("EmptyFile")
    /\ Decoded => parsed.value.headers # <<>>

\* No headers, and the file can no longer be opened for the later passes.
C17_Witness ==
    /\ Decoder = "Csv"
    /\ SourceRecords = <<>>
    /\ disk.opens[1] = "Ok" /\ disk.opens[2] # "Ok" /\ disk.opens[3] # "Ok"
    /\ Failed("EmptyFile")


\* A delimited-text file that is read to its end and holds a malformed record
\* after its header.
HasMalformedRecord ==
    /\ Decoder = "Csv" /\ Readable /\ HasHeader
    /\ \E k \in 1..NumData : ~DataRecord(k).well_formed

\* C19 as stated: a malformed data record never fails the decode; the decode
\* of such a file fails only if the file has no usable row.
C19_MalformedNeverFails ==
    (HasMalformedRecord /\ parsed.tag = "Err") =>
        ~\E k \in 1..NumData : Usable(DataRecord(k))

\* C19, amended: a malformed data record is skipped without an error: the
\* usable records among the first MAX_ROWS data records, before and after it,
\* are returned under their own numbers, no row is returned for it, and the
\* decode fails, with EmptyFile, only if none of the first MAX_ROWS data
\* records is usable.
C19_MalformedSkipped ==
    (HasMalformedRecord /\ parsed # Pending) =>
        LET src == SourceRecords
            ks  == ReturnedOf(src)
        IN  /\ parsed.tag = "Err" => (Failed("EmptyFile") /\ ks = {})
            /\ Decoded =>
                  /\ {parsed.value.rows[i].row_number : i \in 1..Len(parsed.value.rows)}
                        = {k + 1 : k \in ks}
                  /\ \A i \in 1..Len(parsed.value.rows) :
                        /\ src[parsed.value.rows[i].row_number].well_formed
                        /\ src[parsed.value.rows[i].row_number].cells
                              = parsed.value.rows[i].cells

\* A malformed record between two usable ones: both are returned.
C19_Witness ==
    /\ HasMalformedRecord /\ Decoded
    /\ NumData >= 3
    /\ Usable(DataRecord(1)) /\ ~DataRecord(2).well_formed /\ Usable(DataRecord(3))
    /\ Len(parsed.value.rows) = 2
    /\ parsed.value.rows[1].row_number = 2
    /\ parsed.value.rows[2].row_number = 4

\* The extension of each path of the pool, as the dispatch sees it.
LowerExtension ==
    CASE path \in {"/data/prices.csv", "/data/PRICES.CSV", "prices.Csv"} -> "csv"
      [] path \in {"/data/p.xlsx", "/data/P.Xlsx"} -> "xlsx"
      [] path \in {"/data/old.xls", "/data/OLD.XLS"} -> "xls"
      [] path = "/test/file.txt" -> "txt"
      [] path = "/data/sheet.PDF" -> "pdf"
      [] path = "/data/archive.csv.bak" -> "bak"
      [] path \in {"/data/noext", "/data/.csv", "/data.csv/prices"} -> ""

C20_WitnessUpperCase ==
    /\ path = "/data/PRICES.CSV"
    /\ Decoded
    /\ parsed.value.file_type = "Csv"
    /\ ExcelParser_parse(path, disk).tag = "Err"

\* C22: file_type names the format that was decoded: Csv for a .csv source,
\* Xlsx for a .xlsx source, a legacy-workbook tag for a .xls source; Pdf is never
\* produced.
C22_FileTypeNamesFormat ==
    Decoded =>
        /\ LowerExtension = "csv" => parsed.value.file_type = "Csv"
        /\ LowerExtension = "xlsx" => parsed.value.file_type = "Xlsx"
        /\ LowerExtension = "xls" => parsed.value.file_type \notin {"Csv", "Xlsx", "Pdf"}
        /\ parsed.value.file_type # "Pdf"

\* C25: a returned row has exactly the cells of its source record, whether
\* the record is shorter or longer than the header row; a ragged record is
\* neither padded, nor cut, nor rejected.
C25_WidthPreserved ==
    Decoded =>
        LET src == SourceRecords
            rs  == parsed.value.rows
        IN  /\ \A i \in 1..Len(rs) :
                  /\ Len(rs[i].cells) = Len(src[rs[i].row_number].cells)
                  /\ rs[i].cells = src[rs[i].row_number].cells
            /\ \A k \in ReturnedOf(src) : \E i \in 1..Len(rs) : rs[i].row_number = k + 1

\* The file of the tests: header A,B,C and records of 3, 2 and 4 cells.
C25_Witness ==
    /\ Decoded
    /\ parsed.value.headers = <<"A", "B", "C">>
    /\ Len(parsed.value.rows) = 3
    /\ Len(parsed.value.rows[1].cells) = 3
    /\ parsed.value.rows[2].cells = <<"4", "5">>
    /\ parsed.value.rows[3].cells = <<"6", "7", "8", "9">>

\* What each open failure of the workbook pool is to be classified as.
PasswordMessages ==
    { "Workbook is password protected", "Workbook is encrypted",
      "File not found 'xl/password.xml'" }

NotFoundMessages ==
    { "I/O error: No such file or directory (os error 2)",
      "File not found 'xl/workbook.xml'" }

\* C26: the delimited-text decoder fails with FileNotFound when the first open
\* does not find the path, with ReadError on any other open failure, and never
\* with PasswordProtected; the workbook decoder fails with PasswordProtected
\* when the open failure's message contains "password" or "encrypted", else
\* with FileNotFound when it contains "not found" or "No such file", else
\* with ReadError.
C26_FailureClassification ==
    parsed # Pending =>
        /\ Decoder = "Csv" =>
              /\ disk.opens[1] = "NotFound" =>
                    (Failed("FileNotFound") /\ parsed.value.detail = path)
              /\ disk.opens[1] \notin {"Ok", "NotFound"} =>
                    (Failed("ReadError") /\ parsed.value.detail = disk.opens[1])
              /\ (disk.opens[1] = "Ok" /\ HasHeader /\ disk.opens[2] # "Ok") =>
                    Failed("ReadError")
              /\ (disk.opens[1] = "Ok" /\ HasHeader /\ disk.opens[2] = "Ok"
                  /\ disk.opens[3] # "Ok") => Failed("ReadError")
              /\ ~Failed("PasswordProtected")
        /\ (Decoder = "Xlsx" /\ disk.workbook.open # "Ok") =>
              LET msg == disk.workbook.open
              IN  /\ Failed("PasswordProtected")
                        <=> (contains(msg, "password") \/ contains(msg, "encrypted"))
                  /\ Failed("PasswordProtected") <=> msg \in PasswordMessages
                  /\ Failed("FileNotFound")
                        <=> (msg \in NotFoundMessages /\ msg \notin PasswordMessages)
                  /\ Failed("ReadError") <=> msg \notin (PasswordMessages \cup NotFoundMessages)

\* A message that names both a password and a missing part.
C26_Witness ==
    /\ Decoder = "Xlsx"
    /\ disk.workbook.open = "File not found 'xl/password.xml'"
    /\ Failed("PasswordProtected")

\* The path is found by the first open and gone at the second.
C26_WitnessLateNotFound ==
    /\ Decoder = "Csv"
    /\ disk.opens = <<"Ok", "NotFound", "NotFound">>
    /\ Failed("ReadError")

\* C28: the cap is applied to the data records of the source before blank
\* and malformed records are dropped: rows are exactly the usable records
\* among the first MAX_ROWS data records, in source order; no record beyond
\* data position MAX_ROWS is returned, however few rows were emitted; and a
\* file whose first MAX_ROWS data records are all unusable fails with EmptyFile
\* although later records hold data.
C28_CapBeforeFilter ==
    LET src == SourceRecords
    IN  /\ Decoded =>
              /\ \A i \in 1..Len(parsed.value.rows) :
                    /\ parsed.value.rows[i].row_number <= MAX_ROWS + 1
                    /\ Usable(src[parsed.value.rows[i].row_number])
              /\ [i \in 1..Len(parsed.value.rows) |-> parsed.value.rows[i].row_number - 1]
                    = [i \in 1..Cardinality(ReturnedOf(src)) |-> Position(ReturnedOf(src), i)]
        /\ (/\ parsed # Pending /\ Readable /\ HasHeader
            /\ Len(src) - 1 > MAX_ROWS
            /\ \A k \in 1..MAX_ROWS : ~Usable(src[k + 1])) => Failed("EmptyFile")

\* Blank records fill the cap and a record with data follows it.
C28_Witness ==
    /\ Failed("EmptyFile") /\ Readable /\ HasHeader
    /\ NumData > MAX_ROWS
    /\ \A k \in 1..MAX_ROWS : DataRecord(k).well_formed /\ Blank(DataRecord(k))
    /\ Usable(DataRecord(MAX_ROWS + 1))

\* Fewer than MAX_ROWS rows are returned and a usable record beyond the cap
\* is not among them.
C28_WitnessShort ==
    /\ Decoded
    /\ NumData > MAX_ROWS
    /\ Len(parsed.value.rows) < MAX_ROWS
    /\ Usable(DataRecord(MAX_ROWS + 1))
    /\ Decoder = "Xlsx"

\* C29: in every ParsedFile there are at most total_rows - 1 rows and no
\* row_number exceeds min(total_rows, MAX_ROWS + 1); when truncated is false,
\* every usable data record of the source is in rows exactly once.
C29_BoundsAndNothingLost ==
    Decoded =>
        LET rs    == parsed.value.rows
            total == parsed.value.total_rows
            src   == SourceRecords
        IN  /\ Len(rs) <= total - 1
            /\ \A i \in 1..Len(rs) :
                  /\ rs[i].row_number <= total
                  /\ rs[i].row_number <= MAX_ROWS + 1
            /\ ~parsed.value.truncated =>
                  \A k \in 1..(Len(src) - 1) :
                      Usable(src[k + 1]) =>
                          Cardinality({i \in 1..Len(rs) :
                                          /\ rs[i].row_number = k + 1
                                          /\ rs[i].cells = src[k + 1].cells}) = 1

\* Exactly MAX_ROWS data records, one of them dropped: not truncated, and the
\* last record is returned under row_number MAX_ROWS + 1 = total_rows.
C29_Witness ==
    /\ Decoded
    /\ ~parsed.value.truncated
    /\ NumData = MAX_ROWS
    /\ \E k \in 1..NumData : ~Usable(DataRecord(k))
    /\ parsed.value.rows[Len(parsed.value.rows)].row_number = parsed.value.total_rows
    /\ parsed.value.total_rows = MAX_ROWS + 1

(***************************************************************************)
(* Properties of the two decoders on one table (checked under SpecTable).  *)
(***************************************************************************)
\* What the decoder that was not chosen returns for the same table.
OtherDecoder ==
    IF Decoder = "Csv" THEN ExcelParser_parse(path, disk) ELSE CsvParser_parse(path, disk)

\* C23: on the same table of trimmed string cells the two decoders return the
\* same headers, rows, total_rows and truncated, and fail with EmptyFile on
\* the same tables.
C23_DecodersAgree ==
    parsed # Pending =>
        LET other == OtherDecoder
        IN  /\ parsed.tag = other.tag
            /\ Decoded =>
                  /\ parsed.value.headers = other.value.headers
                  /\ parsed.value.rows = other.value.rows
                  /\ parsed.value.total_rows = other.value.total_rows
                  /\ parsed.value.truncated = other.value.truncated
                  /\ parsed.value.file_type # other.value.file_type
            /\ Failed("EmptyFile") <=> (other.tag = "Err" /\ other.value.kind = "EmptyFile")

\* A table over the cap with a blank row inside and a blank row at its end.
C23_Witness ==
    /\ Decoded
    /\ Decoder = "Xlsx"
    /\ parsed.value.truncated
    /\ Blank(DataRecord(2)) /\ Blank(DataRecord(NumData))
    /\ Len(parsed.value.rows) = 2
    /\ OtherDecoder.value.rows = parsed.value.rows

\* A table with a header and only blank rows: both fail with EmptyFile.
C23_WitnessEmpty ==
    /\ Failed("EmptyFile")
    /\ NumData >= 1
    /\ OtherDecoder.tag = "Err"

(***************************************************************************)
(* Properties of the decoders when a read can fail (SpecParseFaults).      *)
(***************************************************************************)
\* An I/O failure met by the decoder chosen for the path: an open that fails,
\* or a read that fails in one of the passes.
IoFailure ==
    \/ /\ Decoder = "Csv"
       /\ \/ \E i \in 1..3 : disk.opens[i] # "Ok"
          \/ disk.read_fault # NoFault
    \/ /\ Decoder = "Xlsx"
       /\ disk.workbook.open # "Ok"

\* C18: a decode ends with a complete ParsedFile or with one ImportError and no
\* rows; after an I/O failure in any pass (open, counting, reading) it ends
\* with an ImportError, never with a ParsedFile.
C18_AllOrNothing ==
    /\ parsed # Pending =>
          \/ parsed.tag = "Ok" /\ DOMAIN parsed.value
                = {"file_name", "file_type", "headers", "rows", "total_rows", "truncated"}
          \/ parsed.tag = "Err" /\ DOMAIN parsed.value = {"kind", "detail"}
    /\ (parsed # Pending /\ IoFailure) => parsed.tag = "Err"


SourceCell(k, col) == disk.workbook.sheets[1].range[k + 1][col + 1]

Columns == 0..2

\* The first mapping of a numeric field points at column col.
GuardedColumn(col) ==
    \E field \in {"Cost", "Msrp"} :
        /\ \E i \in 1..Len(mappings) : mappings[i].target_field = field
        /\ LET first == CHOOSE i \in 1..Len(mappings) :
                            /\ mappings[i].target_field = field
                            /\ \A j \in 1..(i - 1) : mappings[j].target_field # field
           IN  mappings[first].source_column = col

\* C24: an erroneous workbook cell becomes a non-empty string that starts with
\* "ERROR: "; the row that holds it is returned, not dropped as blank; and
\* when a mapped Cost or MSRP column holds it, the row's status is Invalid.
C24_ErrorCellsAreMarked ==
    Decoded =>
        \A k \in 1..Capped(Len(disk.workbook.sheets[1].range) - 1) :
            \A col \in Columns :
                SourceCell(k, col).kind = "Error" =>
                    /\ \E i \in 1..Len(parsed.value.rows) :
                          LET cell == parsed.value.rows[i].cells[col + 1]
                          IN  /\ parsed.value.rows[i].row_number = k + 1
                              /\ Len(cell) > Len("ERROR: ")
                              /\ SubSeq(cell, 1, Len("ERROR: ")) = "ERROR: "
                              /\ cell = "ERROR: " \o SourceCell(k, col).v
                    /\ (/\ Validated
                        /\ Len(rows) = 1
                        /\ rows[1].row_number = k + 1
                        /\ GuardedColumn(col))
                       => /\ results.value[1].status = "Invalid"
                          /\ results.value[1].errors # <<>>

\* A row whose only cell is an erroneous Cost has been decoded and validated.
C24_Witness ==
    /\ Decoded /\ Validated
    /\ Len(rows) = 1
    /\ \E i \in 1..Len(parsed.value.rows) :
          /\ rows[1] = parsed.value.rows[i]
          /\ rows[1].cells = <<"", "ERROR: Value", "">>
    /\ GuardedColumn(1)
    /\ results.value[1].status = "Invalid"

=============================================================================
